---- MODULE Spec2Model ----
(***************************************************************************)
(* Model of Maxwell_Oziel.py: three-letter abbreviations of names.         *)
(*                                                                         *)
(* A Python str is a sequence of one-character strings; Python's 0-based   *)
(* index i is the 1-based index i+1 here.  A Python dict is a sequence of  *)
(* <<key, value>> pairs with distinct keys, in insertion order.            *)
(***************************************************************************)
EXTENDS Integers, Sequences, FiniteSets

(* ------------------------------ bounds --------------------------------- *)
\* longest raw name enumerated over Chars
MaxLen == 4
\* most lines of an input file
MaxBatch == 3
\* most records of a batch of arbitrary abbreviation sets
MaxRecords == 2
\* largest score of an arbitrary abbreviation set
MaxScore == 1

(* ---------------------------- characters ------------------------------- *)
ascii_lowercase ==
    <<"a","b","c","d","e","f","g","h","i","j","k","l","m",
      "n","o","p","q","r","s","t","u","v","w","x","y","z">>
ascii_uppercase ==
    <<"A","B","C","D","E","F","G","H","I","J","K","L","M",
      "N","O","P","Q","R","S","T","U","V","W","X","Y","Z">>

Range(s) == {s[k] : k \in DOMAIN s}
IndexIn(c, s) == CHOOSE k \in DOMAIN s : s[k] = c
Min(a, b) == IF a < b THEN a ELSE b

\* str.islower / str.isupper / "is a letter of [a-zA-Z]" on one character
islower(c) == c \in Range(ascii_lowercase)
isupper(c) == c \in Range(ascii_uppercase)
isalpha(c) == islower(c) \/ isupper(c)
\* str.upper / str.lower on one character
upper(c) == IF islower(c) THEN ascii_uppercase[IndexIn(c, ascii_lowercase)] ELSE c
lower(c) == IF isupper(c) THEN ascii_lowercase[IndexIn(c, ascii_uppercase)] ELSE c
upper_str(s) == [k \in DOMAIN s |-> upper(s[k])]

(* --------------------------- reformat_name ----------------------------- *)
\* re.sub("'+", "", name): every run of apostrophes is deleted
remove_apostrophes(s) == SelectSeq(s, LAMBDA c : c # "'")

\* re.sub("[^a-zA-Z]+", " ", name): each maximal run of non-letters becomes
\* one space
RECURSIVE nonletters_to_space(_, _)
nonletters_to_space(s, in_run) ==
    IF s = <<>> THEN <<>>
    ELSE IF isalpha(Head(s)) THEN <<Head(s)>> \o nonletters_to_space(Tail(s), FALSE)
    ELSE IF in_run THEN nonletters_to_space(Tail(s), TRUE)
    ELSE <<" ">> \o nonletters_to_space(Tail(s), TRUE)

\* str.title(): a cased character is lowercased when the character before it
\* is cased and titlecased (uppercased) otherwise
RECURSIVE title_from(_, _)
title_from(s, previous_is_cased) ==
    IF s = <<>> THEN <<>>
    ELSE <<IF previous_is_cased THEN lower(Head(s)) ELSE upper(Head(s))>>
         \o title_from(Tail(s), isalpha(Head(s)))
title_lower_all(s) == [k \in DOMAIN s |-> IF k = 1 THEN upper(s[k]) ELSE lower(s[k])]
title(s) == title_from(s, FALSE)

\* re.sub(" ", "", name)
remove_spaces(s) == SelectSeq(s, LAMBDA c : c # " ")

reformat_keep_apostrophes(name) == remove_spaces(title(nonletters_to_space(name, FALSE)))
reformat_name(name) ==
    remove_spaces(title(nonletters_to_space(remove_apostrophes(name), FALSE)))

(* ----------------------- calculate_scores_in_word ---------------------- *)
is_last_letter_end_only(name, i) == i = Len(name)
is_last_letter(name, i) == i = Len(name) \/ isupper(name[i + 1])

last_letter_score(c) == IF upper(c) # "E" THEN 5 ELSE 20

bonus_uncapped(char_word_pos) == char_word_pos
bonus(char_word_pos) == Min(char_word_pos, 3)

\* One pass of the for loop from index i on.  The result is the record
\* [raised, scores]: raised is TRUE when letter_values[...] raises KeyError,
\* and the list is then never returned.
RECURSIVE scores_loop(_, _, _, _, _)
scores_loop(name, letter_values, i, char_word_pos, scores) ==
    IF i > Len(name) THEN [raised |-> FALSE, scores |-> scores]
    ELSE LET c == name[i]
             next_pos == IF is_last_letter(name, i) THEN 0 ELSE char_word_pos + 1
         IN  IF char_word_pos = 0
             THEN scores_loop(name, letter_values, i + 1, next_pos,
                              [scores EXCEPT ![i] = 0])
             ELSE IF is_last_letter(name, i)
             THEN scores_loop(name, letter_values, i + 1, next_pos,
                              [scores EXCEPT ![i] = last_letter_score(c)])
             ELSE IF upper(c) \notin DOMAIN letter_values
             THEN [raised |-> TRUE, scores |-> <<>>]
             ELSE scores_loop(name, letter_values, i + 1, next_pos,
                              [scores EXCEPT ![i] = letter_values[upper(c)]
                                                    + bonus(char_word_pos)])

calculate_scores_in_word(name_camel_case, letter_values) ==
    scores_loop(name_camel_case, letter_values, 1, 0,
                [k \in 1..Len(name_camel_case) |-> -1])

(* ------------------------- create_abbreviations ------------------------ *)
\* dict helpers
Keys(d) == {d[k][1] : k \in DOMAIN d}
Get(d, key) == d[CHOOSE k \in DOMAIN d : d[k][1] = key][2]
Put(d, key, value) ==
    IF key \in Keys(d)
    THEN [k \in DOMAIN d |-> IF d[k][1] = key THEN <<key, value>> ELSE d[k]]
    ELSE Append(d, <<key, value>>)

\* the pairs (i, j) of the two nested range() loops with first <= i < j <= n,
\* in loop order: i ascending, and j ascending for each i
pairs_from(first, n) ==
    LET S == {p \in (first..n) \X (first..n) : p[1] < p[2]}
        before(q, p) == q[1] < p[1] \/ (q[1] = p[1] /\ q[2] < p[2])
    IN  [k \in 1..Cardinality(S) |->
            CHOOSE p \in S : Cardinality({q \in S : before(q, p)}) = k - 1]
index_pairs_from_first(n) == pairs_from(1, n)
index_pairs_short(n) == pairs_from(2, n - 1)
index_pairs(n) == pairs_from(2, n)

\* the loop body: the abbreviation of one pair and its insertion
abbreviation_of(name, i, j) == upper_str(<<name[1], name[i], name[j]>>)
insert_keep_first(abbreviations, abbreviation, score) ==
    IF abbreviation \notin Keys(abbreviations)
    THEN Put(abbreviations, abbreviation, score)
    ELSE abbreviations
insert_abbreviation(abbreviations, abbreviation, score) ==
    IF abbreviation \notin Keys(abbreviations) \/ score < Get(abbreviations, abbreviation)
    THEN Put(abbreviations, abbreviation, score)
    ELSE abbreviations

RECURSIVE abbreviations_loop(_, _, _, _)
abbreviations_loop(name, scores, pairs, abbreviations) ==
    IF pairs = <<>> THEN abbreviations
    ELSE LET i == Head(pairs)[1]
             j == Head(pairs)[2]
         IN  abbreviations_loop(name, scores, Tail(pairs),
                 insert_abbreviation(abbreviations, abbreviation_of(name, i, j),
                                     0 + scores[i] + scores[j]))

\* [raised, abbreviations]: raised when calculate_scores_in_word raises
create_abbreviations(name, letter_values) ==
    LET n == reformat_name(name)
        s == calculate_scores_in_word(n, letter_values)
    IN  IF s.raised THEN [raised |-> TRUE, abbreviations |-> <<>>]
        ELSE [raised |-> FALSE,
              abbreviations |-> abbreviations_loop(n, s.scores, index_pairs(Len(n)), <<>>)]

(* ---------------------- find_and_remove_duplicates -------------------- *)
\* instances[abbreviation] after the two nested loops: one count for each
\* record whose dict has the key (absent keys count 0)
RECURSIVE count_instances(_, _)
count_instances(all, abbreviation) ==
    IF all = <<>> THEN 0
    ELSE (IF abbreviation \in Keys(Head(all)[2]) THEN 1 ELSE 0)
         + count_instances(Tail(all), abbreviation)

all_keys(all) == UNION {Keys(all[k][2]) : k \in DOMAIN all}

find_duplicates_more_than_two(all) ==
    {a \in all_keys(all) : count_instances(all, a) > 2}
find_duplicates(all) ==
    {a \in all_keys(all) : count_instances(all, a) > 1}

\* drops only the surplus instances: the first record holding a key keeps it
remove_duplicates_keep_first(all, duplicates) ==
    [k \in DOMAIN all |->
        <<all[k][1],
          SelectSeq(all[k][2],
                    LAMBDA e : e[1] \notin duplicates
                               \/ \A m \in 1..(k - 1) : e[1] \notin Keys(all[m][2]))>>]
remove_duplicates(all, duplicates) ==
    [k \in DOMAIN all |->
        <<all[k][1], SelectSeq(all[k][2], LAMBDA e : e[1] \notin duplicates)>>]

find_and_remove_duplicates(all) == remove_duplicates(all, find_duplicates(all))

(* ----------------------- choose_best_abbreviations --------------------- *)
\* min_score = float('inf') is the pair inf = TRUE, min_score = 0
RECURSIVE best_loop_reset_on_tie(_, _, _, _)
best_loop_reset_on_tie(items, inf, min_score, best) ==
    IF items = <<>> THEN best
    ELSE LET abbreviation == Head(items)[1]
             score == Head(items)[2]
         IN  IF inf \/ score <= min_score
             THEN best_loop_reset_on_tie(Tail(items), FALSE, score, <<abbreviation>>)
             ELSE best_loop_reset_on_tie(Tail(items), inf, min_score, best)
RECURSIVE best_loop(_, _, _, _)
best_loop(items, inf, min_score, best) ==
    IF items = <<>> THEN best
    ELSE LET abbreviation == Head(items)[1]
             score == Head(items)[2]
         IN  IF inf \/ score < min_score
             THEN best_loop(Tail(items), FALSE, score, <<abbreviation>>)
             ELSE IF score = min_score
             THEN best_loop(Tail(items), inf, min_score, Append(best, abbreviation))
             ELSE best_loop(Tail(items), inf, min_score, best)

choose_best_abbreviations_inner_last_only(abbreviations) ==
    best_loop_reset_on_tie(abbreviations, TRUE, 0, <<>>)
choose_best_abbreviations_inner(abbreviations) ==
    best_loop(abbreviations, TRUE, 0, <<>>)

choose_best_abbreviations(filtered_list) ==
    [k \in DOMAIN filtered_list |->
        <<filtered_list[k][1], choose_best_abbreviations_inner(filtered_list[k][2])>>]

(* ------------------- write_best_abbreviations_to_file ------------------ *)
\* ' '.join(abbreviations)
RECURSIVE join(_)
join(abbreviations) ==
    IF abbreviations = <<>> THEN <<>>
    ELSE IF Len(abbreviations) = 1 THEN Head(abbreviations)
    ELSE Head(abbreviations) \o <<" ">> \o join(Tail(abbreviations))

\* the lines written, each without its "\n"
RECURSIVE written_lines(_)
written_lines(best) ==
    IF best = <<>> THEN <<>>
    ELSE <<Head(best)[1], join(Head(best)[2])>> \o written_lines(Tail(best))

(* ------------------------------- inputs -------------------------------- *)
\* values.txt with A=1 .. Z=26, and the same file with one line missing
full_table == [c \in Range(ascii_uppercase) |-> IndexIn(c, ascii_uppercase)]
without(table, c) == [d \in DOMAIN table \ {c} |-> table[d]]
Tables == {full_table, without(full_table, "R"), without(full_table, "E")}

Chars == {"e", "r", "R", "'", "-"}
Strings(alphabet, n) == UNION {[1..m -> alphabet] : m \in 0..n}

OBrien == <<"o", "'", "b", "r", "i", "e", "n">>
JoSmith == <<"J", "o", " ", "S", "m", "i", "t", "h">>
DeniseL == <<"d", "e", "n", "i", "s", "e", "-", "l", "3">>
Scenarios == {OBrien, JoSmith, DeniseL}
RawNames == Strings(Chars, MaxLen) \cup Scenarios

\* the lines an input file is made of
BatchNames ==
    { <<>>, <<"r">>, <<"r", "-", "e">>, <<"r", "e", "r">>, <<"R", "e", "e">>,
      <<"r", "'", "e", "r", "e">>, <<"r", "-", "r", "-", "r">>, <<"r", "r", "-", "e">> }
Files == Strings(BatchNames, MaxBatch)

\* batches of arbitrary abbreviation sets
Abbreviations == {<<"R", "E", "R">>, <<"R", "R", "E">>}
KeyLists ==
    {ks \in Strings(Abbreviations, Cardinality(Abbreviations)) :
        \A a, b \in DOMAIN ks : a # b => ks[a] # ks[b]}
Dicts ==
    UNION {{[k \in DOMAIN ks |-> <<ks[k], sc[k]>>] : sc \in [DOMAIN ks -> 0..MaxScore]} :
           ks \in KeyLists}
display_name(k) == [m \in 1..k |-> "x"]
RecordBatches ==
    {[k \in DOMAIN ds |-> <<display_name(k), ds[k]>>] : ds \in Strings(Dicts, MaxRecords)}

(* -------------------------------- state -------------------------------- *)
VARIABLES
    pc,                 \* where the run is
    letter_values,      \* the loaded table
    raw,                \* create_abbreviations: its argument
    name,               \* create_abbreviations: the reformatted name
    twice,              \* reformat_name applied to its own result
    scores,             \* create_abbreviations: the scores list
    pairs,              \* create_abbreviations: the (i, j) still to visit
    abbreviations,      \* create_abbreviations: the dict being built
    infile,             \* main: the lines of the input file
    line,               \* create_all_abbreviations: lines consumed
    comp,               \* create_all_abbreviations: the list being built
    all_abbreviations,  \* main
    filtered,           \* main
    best_abbreviations, \* main
    outfile_exists,     \* the output file has been opened for writing
    outfile             \* the lines written to it

name_vars == <<raw, name, twice, scores, pairs, abbreviations>>
main_vars == <<infile, line, comp, all_abbreviations, filtered, best_abbreviations,
               outfile_exists, outfile>>
vars == <<pc, letter_values, name_vars, main_vars>>

NameIdle ==
    /\ raw = <<>> /\ name = <<>> /\ twice = <<>> /\ scores = <<>>
    /\ pairs = <<>> /\ abbreviations = <<>>
MainIdle ==
    /\ infile = <<>> /\ line = 0 /\ comp = <<>> /\ all_abbreviations = <<>>
    /\ filtered = <<>> /\ best_abbreviations = <<>>
    /\ outfile_exists = FALSE /\ outfile = <<>>

(* ------------------ one call of create_abbreviations ------------------- *)
InitName ==
    /\ pc = "create_abbreviations"
    /\ letter_values \in Tables
    /\ raw \in RawNames
    /\ name = <<>> /\ twice = <<>> /\ scores = <<>>
    /\ pairs = <<>> /\ abbreviations = <<>>
    /\ MainIdle

Reformat ==
    /\ pc = "create_abbreviations"
    /\ name' = reformat_name(raw)
    /\ pc' = "reformatted"
    /\ UNCHANGED <<letter_values, raw, twice, scores, pairs, abbreviations, main_vars>>

ReformatAgain ==
    /\ pc = "reformatted"
    /\ twice' = reformat_name(name)
    /\ pc' = "reformatted_twice"
    /\ UNCHANGED <<letter_values, raw, name, scores, pairs, abbreviations, main_vars>>

CalculateScores ==
    /\ pc = "reformatted"
    /\ ~calculate_scores_in_word(name, letter_values).raised
    /\ scores' = calculate_scores_in_word(name, letter_values).scores
    /\ pairs' = index_pairs(Len(name))
    /\ abbreviations' = <<>>
    /\ pc' = "scored"
    /\ UNCHANGED <<letter_values, raw, name, twice, main_vars>>

ScoresKeyError ==
    /\ pc = "reformatted"
    /\ calculate_scores_in_word(name, letter_values).raised
    /\ pc' = "KeyError"
    /\ UNCHANGED <<letter_values, name_vars, main_vars>>

InsertAbbreviation ==
    /\ pc = "scored"
    /\ pairs # <<>>
    /\ LET i == Head(pairs)[1]
           j == Head(pairs)[2]
       IN  abbreviations' = insert_abbreviation(abbreviations, abbreviation_of(name, i, j),
                                                0 + scores[i] + scores[j])
    /\ pairs' = Tail(pairs)
    /\ UNCHANGED <<pc, letter_values, raw, name, twice, scores, main_vars>>

ReturnAbbreviations ==
    /\ pc = "scored"
    /\ pairs = <<>>
    /\ pc' = "returned"
    /\ UNCHANGED <<letter_values, name_vars, main_vars>>

NextName ==
    \/ Reformat
    \/ ReformatAgain
    \/ CalculateScores
    \/ ScoresKeyError
    \/ InsertAbbreviation
    \/ ReturnAbbreviations

SpecName == InitName /\ [][NextName]_vars

(* -------------------------------- main --------------------------------- *)
Init ==
    /\ pc = "create_all_abbreviations"
    /\ letter_values \in Tables
    /\ infile \in Files
    /\ line = 0 /\ comp = <<>> /\ all_abbreviations = <<>>
    /\ filtered = <<>> /\ best_abbreviations = <<>>
    /\ outfile_exists = FALSE /\ outfile = <<>>
    /\ NameIdle

\* one element of the list comprehension of create_all_abbreviations
ReadLine ==
    /\ pc = "create_all_abbreviations"
    /\ line < Len(infile)
    /\ LET r == create_abbreviations(infile[line + 1], letter_values)
       IN  /\ ~r.raised
           /\ comp' = Append(comp, <<infile[line + 1], r.abbreviations>>)
    /\ line' = line + 1
    /\ UNCHANGED <<pc, letter_values, name_vars, infile, all_abbreviations, filtered,
                   best_abbreviations, outfile_exists, outfile>>

\* the KeyError leaves main: the list under construction is lost
LineKeyError ==
    /\ pc = "create_all_abbreviations"
    /\ line < Len(infile)
    /\ create_abbreviations(infile[line + 1], letter_values).raised
    /\ comp' = <<>>
    /\ pc' = "KeyError"
    /\ UNCHANGED <<letter_values, name_vars, infile, line, all_abbreviations, filtered,
                   best_abbreviations, outfile_exists, outfile>>

CreateAllReturn ==
    /\ pc = "create_all_abbreviations"
    /\ line = Len(infile)
    /\ all_abbreviations' = comp
    /\ pc' = "find_and_remove_duplicates"
    /\ UNCHANGED <<letter_values, name_vars, infile, line, comp, filtered,
                   best_abbreviations, outfile_exists, outfile>>

FindAndRemoveDuplicates ==
    /\ pc = "find_and_remove_duplicates"
    /\ filtered' = find_and_remove_duplicates(all_abbreviations)
    /\ pc' = "choose_best_abbreviations"
    /\ UNCHANGED <<letter_values, name_vars, infile, line, comp, all_abbreviations,
                   best_abbreviations, outfile_exists, outfile>>

ChooseBestAbbreviations ==
    /\ pc = "choose_best_abbreviations"
    /\ best_abbreviations' = choose_best_abbreviations(filtered)
    /\ pc' = "write_best_abbreviations_to_file"
    /\ UNCHANGED <<letter_values, name_vars, infile, line, comp, all_abbreviations,
                   filtered, outfile_exists, outfile>>

WriteBestAbbreviations ==
    /\ pc = "write_best_abbreviations_to_file"
    /\ outfile_exists' = TRUE
    /\ outfile' = written_lines(best_abbreviations)
    /\ pc' = "done"
    /\ UNCHANGED <<letter_values, name_vars, infile, line, comp, all_abbreviations,
                   filtered, best_abbreviations>>

Next ==
    \/ ReadLine
    \/ LineKeyError
    \/ CreateAllReturn
    \/ FindAndRemoveDuplicates
    \/ ChooseBestAbbreviations
    \/ WriteBestAbbreviations

Spec == Init /\ [][Next]_vars

(* ------------- deduplication and selection on any batch ---------------- *)
\* find_and_remove_duplicates and choose_best_abbreviations take any list of
\* (name, dict) pairs; the names are opaque to them.
InitSets ==
    /\ pc = "find_and_remove_duplicates"
    /\ letter_values = full_table
    /\ all_abbreviations \in RecordBatches
    /\ infile = <<>> /\ line = 0 /\ comp = <<>>
    /\ filtered = <<>> /\ best_abbreviations = <<>>
    /\ outfile_exists = FALSE /\ outfile = <<>>
    /\ NameIdle

NextSets ==
    \/ FindAndRemoveDuplicates
    \/ ChooseBestAbbreviations
    \/ WriteBestAbbreviations

SpecSets == InitSets /\ [][NextSets]_vars

(* ====================== properties of one name ========================= *)
\* 0-based offset of position i in its word: the distance to the nearest
\* capital at or before i
word_offset(n, i) == i - (CHOOSE k \in 1..i : isupper(n[k]) /\ \A m \in (k + 1)..i : ~isupper(n[m]))
word_first(n, i) == isupper(n[i])
word_last(n, i) == i = Len(n) \/ isupper(n[i + 1])
word_interior(n, i) == ~word_first(n, i) /\ ~word_last(n, i)
expected_score(n, i, table) ==
    IF word_first(n, i) THEN 0
    ELSE IF word_last(n, i) THEN (IF n[i] \in {"e", "E"} THEN 20 ELSE 5)
    ELSE table[upper(n[i])] + (IF word_offset(n, i) < 3 THEN word_offset(n, i) ELSE 3)
Covers(table, n) == \A i \in DOMAIN n : upper(n[i]) \in DOMAIN table

\* C4: calculate_scores_in_word returns one score per character, none of
\* them the -1 it starts from: 0 for the first letter of a word, else 20 or
\* 5 for the last letter of a word ('E' or not), else the table value plus
\* min(offset in the word, 3); and it raises nothing when the table covers
\* the letters of the name.
C4_ScoresPerRule ==
    /\ pc \in {"scored", "returned"} =>
          /\ Len(scores) = Len(name)
          /\ \A i \in DOMAIN name :
                scores[i] # -1 /\ scores[i] = expected_score(name, i, letter_values)
    /\ pc = "KeyError" => ~Covers(letter_values, name)
C4_Witness ==
    /\ pc = "scored"
    /\ Covers(letter_values, name)
    /\ \E i \in DOMAIN name : word_interior(name, i) /\ word_offset(name, i) > 3
    /\ \E i \in DOMAIN name : ~word_first(name, i) /\ word_last(name, i) /\ name[i] = "e"

\* C7 as stated: "o'brien" becomes "OBrien" and scores [0,5,?,?,?,5].
C7_OBrienCamelCase ==
    (pc = "scored" /\ raw = OBrien /\ letter_values = full_table) =>
        /\ name = <<"O", "B", "r", "i", "e", "n">>
        /\ scores[1] = 0 /\ scores[2] = 5 /\ scores[6] = 5
\* C7 amended: "o'brien" becomes the one word "Obrien", and with A=1..Z=26
\* its scores are [0,3,20,12,8,5], the final 'n' scoring 5.
C7_OBrienOneWord ==
    (pc = "scored" /\ raw = OBrien /\ letter_values = full_table) =>
        /\ name = <<"O", "b", "r", "i", "e", "n">>
        /\ scores = <<0, 3, 20, 12, 8, 5>>
C7_Witness == pc = "scored" /\ raw = OBrien /\ letter_values = full_table

\* the words of a raw name: a letter starts a word when no letter comes
\* before it or something other than apostrophes lies between it and the
\* letter before it
starts_word(r, i) ==
    /\ isalpha(r[i])
    /\ \A k \in 1..(i - 1) :
          isalpha(r[k]) => \E m \in (k + 1)..(i - 1) : r[m] # "'"
word_count(r) == Cardinality({i \in DOMAIN r : starts_word(r, i)})

\* C5 as stated: reformat_name(reformat_name(x)) = reformat_name(x).
C5_Idempotent == pc = "reformatted_twice" => twice = name
\* C5 amended: reformatting a reformatted name keeps its first letter and
\* lowercases the rest, so it gives the same name exactly when the raw name
\* has at most one word.
C5_IdempotentOnOneWord ==
    pc = "reformatted_twice" =>
        /\ twice = [k \in DOMAIN name |-> IF k = 1 THEN name[k] ELSE lower(name[k])]
        /\ (twice = name) <=> (word_count(raw) <= 1)
C5_Witness ==
    pc = "reformatted_twice" /\ word_count(raw) = 1 /\ Len(name) > 2 /\ twice = name
    /\ \E i \in DOMAIN raw : raw[i] = "'"

pair_set(n) == {p \in (2..n) \X (2..n) : p[1] < p[2]}
pair_string(n, p) == <<upper(n[1]), upper(n[p[1]]), upper(n[p[2]])>>
pair_score(p) == scores[p[1]] + scores[p[2]]

\* C3: the keys of the dict create_abbreviations returns are the strings of
\* all index pairs, and each key has the least score of the pairs giving it
\* (which fixes the mapping whatever the order the pairs are visited in).
C3_KeysAndMinimalScores ==
    pc = "returned" =>
        /\ Keys(abbreviations) = {pair_string(name, p) : p \in pair_set(Len(name))}
        /\ Cardinality(Keys(abbreviations)) = Len(abbreviations)
        /\ \A k \in DOMAIN abbreviations :
              /\ \E p \in pair_set(Len(name)) :
                    pair_string(name, p) = abbreviations[k][1]
                    /\ pair_score(p) = abbreviations[k][2]
              /\ \A p \in pair_set(Len(name)) :
                    pair_string(name, p) = abbreviations[k][1]
                        => abbreviations[k][2] <= pair_score(p)
C3_Witness ==
    /\ pc = "returned"
    /\ Len(abbreviations) > 1
    /\ \E p, q \in pair_set(Len(name)) :
          /\ pair_string(name, p) = pair_string(name, q)
          /\ (p[1] < q[1] \/ (p[1] = q[1] /\ p[2] < q[2]))
          /\ pair_score(q) < pair_score(p)

Choose2(n) == IF n < 2 THEN 0 ELSE (n * (n - 1)) \div 2
all_pairs_distinct(n) ==
    \A p, q \in pair_set(Len(n)) : p # q => pair_string(n, p) # pair_string(n, q)

\* C6 as stated: the dict has at most C(len - 2, 2) entries.
C6_AtMostChooseLenMinus2 ==
    pc = "returned" => Len(abbreviations) <= Choose2(Len(name) - 2)
\* C6 amended: the dict has at most C(len - 1, 2) entries, the number of
\* index pairs, and exactly that many when all pairs give distinct strings.
C6_AtMostChooseLenMinus1 ==
    pc = "returned" =>
        /\ Len(abbreviations) <= Choose2(Len(name) - 1)
        /\ all_pairs_distinct(name) => Len(abbreviations) = Choose2(Len(name) - 1)
C6_Witness ==
    pc = "returned" /\ Len(name) = 4 /\ Len(abbreviations) = 3

(* ====================== properties of a whole run ====================== *)
letter_count(r) == Cardinality({i \in DOMAIN r : isalpha(r[i])})
\* the table lacks a letter that the name has inside a word (neither the
\* first nor the last letter of the word)
needs_missing_letter(r, table) ==
    LET n == reformat_name(r)
    IN  \E i \in DOMAIN n : word_interior(n, i) /\ upper(n[i]) \notin DOMAIN table
started == pc \notin {"create_all_abbreviations", "KeyError"}
chosen == pc \in {"write_best_abbreviations_to_file", "done"}

\* C8 as stated: a table lacking a letter makes every batch (here of at
\* least one line) fail, with no result and no output.
C8_IncompleteTableAlwaysFatal ==
    (DOMAIN letter_values # Range(ascii_uppercase) /\ infile # <<>>) =>
        ~started /\ ~outfile_exists
\* C8 amended: the run fails exactly when a name has inside a word a letter
\* the table lacks, at the first such name, and then leaves no result list
\* and no output file; otherwise it runs to the end.
C8_MissingInteriorLetterFatal ==
    /\ pc = "KeyError" =>
          /\ needs_missing_letter(infile[line + 1], letter_values)
          /\ \A k \in 1..line : ~needs_missing_letter(infile[k], letter_values)
          /\ comp = <<>> /\ all_abbreviations = <<>> /\ filtered = <<>>
          /\ best_abbreviations = <<>> /\ ~outfile_exists /\ outfile = <<>>
    /\ \A k \in DOMAIN infile :
          needs_missing_letter(infile[k], letter_values) => ~started /\ line < k
C8_Witness ==
    /\ pc = "KeyError"
    /\ line > 0
    /\ letter_count(infile[1]) > 2
    /\ \E c \in Range(ascii_uppercase) \ DOMAIN letter_values :
          c \in Range(upper_str(infile[1]))

\* C9: a line with at most two letters raises nothing, gets the empty dict,
\* and keeps its place in the result with no winner.
C9_DegenerateNamesGiveEmpty ==
    \A k \in DOMAIN infile :
        letter_count(infile[k]) <= 2 =>
            /\ ~(pc = "KeyError" /\ line = k - 1)
            /\ k <= Len(comp) => comp[k] = <<infile[k], <<>>>>
            /\ started => all_abbreviations[k] = <<infile[k], <<>>>>
            /\ chosen =>
                  /\ Len(best_abbreviations) = Len(infile)
                  /\ best_abbreviations[k] = <<infile[k], <<>>>>
            /\ pc = "done" => outfile[2 * k - 1] = infile[k] /\ outfile[2 * k] = <<>>
C9_Witness ==
    /\ pc = "done"
    /\ \E k, m \in DOMAIN infile :
          /\ k < m
          /\ best_abbreviations[k][2] # <<>>
          /\ letter_count(infile[m]) = 2
          /\ DOMAIN letter_values # Range(ascii_uppercase)

(* ================= properties of deduplication and selection =========== *)
deduplicated == pc # "find_and_remove_duplicates"
in_no_other(all, k, a) == \A m \in DOMAIN all : m # k => a \notin Keys(all[m][2])

\* C1: find_and_remove_duplicates keeps the records and their order, and in
\* each record exactly the entries whose abbreviation no other record has,
\* so no abbreviation is left in two records.
C1_KeepsExactlyTheUnique ==
    deduplicated =>
        /\ Len(filtered) = Len(all_abbreviations)
        /\ \A k \in DOMAIN all_abbreviations :
              /\ filtered[k][1] = all_abbreviations[k][1]
              /\ filtered[k][2] =
                    SelectSeq(all_abbreviations[k][2],
                              LAMBDA e : in_no_other(all_abbreviations, k, e[1]))
        /\ \A k, m \in DOMAIN filtered :
              k # m => Keys(filtered[k][2]) \cap Keys(filtered[m][2]) = {}
C1_Witness ==
    /\ deduplicated
    /\ \E k \in DOMAIN filtered :
          /\ filtered[k][2] # <<>>
          /\ Len(filtered[k][2]) < Len(all_abbreviations[k][2])

least_score(d) == CHOOSE v \in {d[k][2] : k \in DOMAIN d} : \A k \in DOMAIN d : v <= d[k][2]

\* C2: the winners of a set are its abbreviations of least score, each once,
\* and there is none exactly when the set is empty.
C2_WinnersAreTheMinimal ==
    chosen =>
        \A k \in DOMAIN filtered :
            LET d == filtered[k][2]
                w == best_abbreviations[k][2]
            IN  /\ (w = <<>>) <=> (d = <<>>)
                /\ Cardinality(Range(w)) = Len(w)
                /\ d # <<>> => Range(w) = {d[m][1] : m \in {x \in DOMAIN d : d[x][2] = least_score(d)}}
C2_Witness ==
    /\ chosen
    /\ \E k, m \in DOMAIN filtered :
          /\ Len(filtered[k][2]) = 2
          /\ best_abbreviations[k][2] = <<filtered[k][2][2][1]>>
          /\ filtered[m][2] = <<>> /\ best_abbreviations[m][2] = <<>>

orders(n) == {p \in [1..n -> 1..n] : \A a, b \in 1..n : a # b => p[a] # p[b]}
permuted(all, p) == [k \in DOMAIN all |-> all[p[k]]]

\* C10: for every order of the records, each record is left with the same
\* set and the same winners; only its place follows the input order.
C10_OrderIndependent ==
    \A p \in orders(Len(all_abbreviations)) :
        /\ deduplicated =>
              find_and_remove_duplicates(permuted(all_abbreviations, p)) = permuted(filtered, p)
        /\ chosen =>
              choose_best_abbreviations(
                  find_and_remove_duplicates(permuted(all_abbreviations, p)))
              = permuted(best_abbreviations, p)
C10_Witness ==
    /\ chosen
    /\ Len(all_abbreviations) > 1
    /\ \E k, m \in DOMAIN filtered :
          /\ k < m
          /\ filtered[k][2] # filtered[m][2]
          /\ Len(filtered[k][2]) < Len(all_abbreviations[k][2])
          /\ best_abbreviations[k][2] # <<>>

====
